---- MODULE Spec2Model ----
(***************************************************************************)
(* planar: strongly typed planar geometry (oned.rs, twod.rs, transform.rs) *)
(*                                                                         *)
(* The library is generic over the numeric representation T.  The model    *)
(* instantiates T (variable rep) with a signed two's-complement integer of *)
(* IntBits bits (wrapping arithmetic, division truncating toward zero) and  *)
(* with a binary floating-point format of MantBits significant bits,       *)
(* round-to-nearest-even, whose smallest step is 2^-FracBits.  A float is   *)
(* stored as the integer number of such steps.  Integer overflow wraps, as *)
(* in a build without overflow checks; with them the operation panics and  *)
(* returns nothing.  Operations that never return (integer division by     *)
(* zero or MIN / -1) are outside the guards; non-finite floats are outside *)
(* the input sets.                                                         *)
(*                                                                         *)
(* Unit and kind tags are type-level in the source; in the model every     *)
(* value carries them, and an operator application for which the source    *)
(* has no impl yields NoImpl (the program is rejected by the compiler).    *)
(***************************************************************************)
EXTENDS Integers, Sequences, FiniteSets, TLC

VARIABLES rep, op, lhs, rhs, res, recv, tf, live

vars == <<rep, op, lhs, rhs, res, recv, tf, live>>

\* ---------------------------------------------------------------- bounds
IntBits == 5
MantBits == 3
FracBits == 2
MaxVal == 2
MaxComp == 1
MaxCoef == 1
MaxArg == 3
MaxRect == 3
MaxTo == 2

\* ------------------------------------------------- numeric representation
Reps == {"int", "float"}

RECURSIVE Pow2(_)
Pow2(n) == IF n <= 0 THEN 1 ELSE 2 * Pow2(n - 1)

Abs(n) == IF n < 0 THEN -n ELSE n

Sign(n) == IF n < 0 THEN -1 ELSE 1

IntMin == -Pow2(IntBits - 1)

IntMax == Pow2(IntBits - 1) - 1

Wrap(n) == ((n + Pow2(IntBits - 1)) % Pow2(IntBits)) - Pow2(IntBits - 1)

TruncDiv(a, b) == Sign(a) * Sign(b) * (Abs(a) \div Abs(b))

RoundHalfEven(a, b) ==
    LET q == a \div b
        r == a % b
    IN  IF 2 * r < b THEN q
        ELSE IF 2 * r > b THEN q + 1
        ELSE IF q % 2 = 0 THEN q ELSE q + 1

RECURSIVE Exponent(_, _, _)
Exponent(a, b, e) ==
    IF a < b * Pow2(MantBits + e) THEN e ELSE Exponent(a, b, e + 1)

\* the float nearest to num/den steps (den > 0)
FRound(num, den) ==
    LET a == Abs(num)
        e == Exponent(a, den, 0)
        m == RoundHalfEven(a, den * Pow2(e))
    IN  Sign(num) * m * Pow2(e)

Representable(n) == FRound(n, 1) = n

\* the literal 1 of the representation
One == IF rep = "int" THEN 1 ELSE Pow2(FracBits)

Lit(n) == n * One

NumAdd(a, b) == IF rep = "int" THEN Wrap(a + b) ELSE FRound(a + b, 1)

NumSub(a, b) == IF rep = "int" THEN Wrap(a - b) ELSE FRound(a - b, 1)

NumMul(a, b) ==
    IF rep = "int" THEN Wrap(a * b) ELSE FRound(a * b, Pow2(FracBits))

\* the division returns (a finite value)
DivReturns(a, b) == b # 0 /\ (rep = "int" => ~(a = IntMin /\ b = -1))

NumDiv(a, b) ==
    IF rep = "int" THEN TruncDiv(a, b)
    ELSE Sign(b) * FRound(a * Pow2(FracBits), Abs(b))

NumInto(a) == a

\* the input values of the representation
Vals ==
    IF rep = "int" THEN (-MaxVal .. MaxVal) \cup {IntMin, IntMax}
    ELSE {Lit(n) : n \in -MaxVal .. MaxVal} \cup {-1, 1}

\* ------------------------------------------------------------ oned.rs
Units == {"U1", "U2"}

Lengths == {"Length", "Width", "Height"}

Positions == {"Position", "PosX", "PosY"}

Kinds == Lengths \cup Positions

NoImpl == [kind |-> "NoImpl"]

NoValue == [kind |-> "None"]

new(k, u, x) == [kind |-> k, unit |-> u, v |-> x]

get(q) == q.v

into_inner(q) == q.v

Scalars == {new(k, u, x) : k \in Kinds, u \in Units, x \in Vals}

\* the invocations of impl_oned_add!: <<length, pos>>
impl_oned_add == {<<"Length", "Position">>, <<"Width", "PosX">>, <<"Height", "PosY">>}

\* a macro that also generated Add<pos> for pos
AddImplsPosPos ==
    UNION {{[self |-> p[1], other |-> p[1], out |-> p[1]],
            [self |-> p[2], other |-> p[1], out |-> p[2]],
            [self |-> p[2], other |-> p[2], out |-> p[2]]} : p \in impl_oned_add}

\* the Add impls one invocation generates
AddImpls ==
    UNION {{[self |-> p[1], other |-> p[1], out |-> p[1]],
            [self |-> p[2], other |-> p[1], out |-> p[2]]} : p \in impl_oned_add}

\* the Sub impls one invocation generates
SubImpls ==
    UNION {{[self |-> p[1], other |-> p[1], out |-> p[1]],
            [self |-> p[2], other |-> p[1], out |-> p[2]],
            [self |-> p[2], other |-> p[2], out |-> p[1]]} : p \in impl_oned_add}

\* the impl the compiler selects for self (op) other, if any
Select(impls, a, b) ==
    {i \in impls : i.self = a.kind /\ i.other = b.kind /\ a.unit = b.unit}

\* Add<length> for pos that forgets the right operand
add_drop(a, b) ==
    LET s == Select(AddImpls, a, b)
    IN  IF s = {} THEN NoImpl
        ELSE new((CHOOSE i \in s : TRUE).out, a.unit, into_inner(a))

add(a, b) ==
    LET s == Select(AddImpls, a, b)
    IN  IF s = {} THEN NoImpl
        ELSE new((CHOOSE i \in s : TRUE).out, a.unit, NumAdd(into_inner(a), into_inner(b)))

\* Sub<pos> for pos with the operands exchanged
sub_swapped(a, b) ==
    LET s == Select(SubImpls, a, b)
    IN  IF s = {} THEN NoImpl
        ELSE new((CHOOSE i \in s : TRUE).out, a.unit, NumSub(into_inner(b), into_inner(a)))

sub(a, b) ==
    LET s == Select(SubImpls, a, b)
    IN  IF s = {} THEN NoImpl
        ELSE new((CHOOSE i \in s : TRUE).out, a.unit, NumSub(into_inner(a), into_inner(b)))

\* PartialEq: defined between two values of one type, compares the numbers
eq(a, b) == a.kind = b.kind /\ a.unit = b.unit /\ a.v = b.v

\* the AddAssign and SubAssign impls one invocation generates
AssignImpls ==
    UNION {{[self |-> p[1], other |-> p[1], out |-> p[1]],
            [self |-> p[2], other |-> p[1], out |-> p[2]]} : p \in impl_oned_add}

\* the receiver after self += b
add_assign(a, b) ==
    IF Select(AssignImpls, a, b) = {} THEN NoImpl
    ELSE new(a.kind, a.unit, NumAdd(a.v, into_inner(b)))

\* SubAssign::sub_assign with the body of add_assign
sub_assign_adds(a, b) ==
    IF Select(AssignImpls, a, b) = {} THEN NoImpl
    ELSE new(a.kind, a.unit, NumAdd(a.v, into_inner(b)))

\* the receiver after self -= b
sub_assign(a, b) ==
    IF Select(AssignImpls, a, b) = {} THEN NoImpl
    ELSE new(a.kind, a.unit, NumSub(a.v, into_inner(b)))

\* a plain number of the representation (a scale, or a value returned)
Num(x) == [kind |-> "Num", v |-> x]

Bool(b) == [kind |-> "bool", v |-> b]

\* the scalar receiver after self -= b, for any right operand
oned_sub_assign(a, b) == IF b.kind \in Kinds THEN sub_assign(a, b) ELSE NoImpl

\* the scalar receiver after self += b, for any right operand
oned_add_assign(a, b) == IF b.kind \in Kinds THEN add_assign(a, b) ELSE NoImpl

\* Mul<V> for $s: T: Mul<V> holds for a plain number only
scale_mul(a, b) ==
    IF b.kind = "Num" THEN new(a.kind, a.unit, NumMul(into_inner(a), b.v)) ELSE NoImpl

\* Div<V> for $s
scale_div(a, b) ==
    IF b.kind = "Num" THEN new(a.kind, a.unit, NumDiv(into_inner(a), b.v)) ELSE NoImpl

\* MulAssign<V> for $s: the receiver after self *= scale
mul_assign(a, b) ==
    IF b.kind = "Num" THEN new(a.kind, a.unit, NumMul(a.v, b.v)) ELSE NoImpl

\* DivAssign<V> for $s: the receiver after self /= scale
div_assign(a, b) ==
    IF b.kind = "Num" THEN new(a.kind, a.unit, NumDiv(a.v, b.v)) ELSE NoImpl

\* PartialEq::eq as an expression: a type error between different types
partial_eq(a, b) ==
    IF a.kind = b.kind /\ a.unit = b.unit THEN Bool(eq(a, b)) ELSE NoImpl

\* partial_cmp with self and other exchanged
partial_cmp_reversed(a, b) ==
    IF b.v < a.v THEN "Less" ELSE IF b.v = a.v THEN "Equal" ELSE "Greater"

\* PartialOrd::partial_cmp, Ord::cmp: the ordering of the two numbers
partial_cmp(a, b) ==
    IF a.v < b.v THEN "Less" ELSE IF a.v = b.v THEN "Equal" ELSE "Greater"

\* a < b
lt(a, b) ==
    IF a.kind \in Kinds /\ a.kind = b.kind /\ a.unit = b.unit
    THEN Bool(partial_cmp(a, b) = "Less") ELSE NoImpl

\* ------------------------------------------------------------ twod.rs
Size(w, h) == [kind |-> "Size", width |-> w, height |-> h]

Point(px, py) == [kind |-> "Point", x |-> px, y |-> py]

Rect(o, s) == [kind |-> "Rect", origin |-> o, size |-> s]

\* a struct literal type-checks only if no field is an error
Built(fields, value) == IF NoImpl \in fields THEN NoImpl ELSE value

\* the scalar operator an impl of impl_twod_add_width_height! applies to a field
field_op(name, a, b) ==
    IF name = "add" THEN add(a, b)
    ELSE IF name = "sub" THEN sub(a, b)
    ELSE IF name = "add_assign" THEN add_assign(a, b)
    ELSE sub_assign(a, b)

\* impl_twod_add_width_height!(Size, width, height) and (Point, x, y):
\* the operator applied to the $x field, the $y field moved over
OnX(name, c, other) ==
    IF c.kind = "Size"
    THEN Built({field_op(name, c.width, other)}, Size(field_op(name, c.width, other), c.height))
    ELSE Built({field_op(name, c.x, other)}, Point(field_op(name, c.x, other), c.y))

\* the operator applied to the $y field, the $x field moved over
OnY(name, c, other) ==
    IF c.kind = "Size"
    THEN Built({field_op(name, c.height, other)}, Size(c.width, field_op(name, c.height, other)))
    ELSE Built({field_op(name, c.y, other)}, Point(c.x, field_op(name, c.y, other)))

\* Add<Width>, Add<Height>, Sub<..>, AddAssign<..>, SubAssign<..> for Size, Point
twod_scalar(name, c, other) ==
    IF other.kind = "Width" THEN OnX(name, c, other)
    ELSE IF other.kind = "Height" THEN OnY(name, c, other)
    ELSE NoImpl

\* Add<Width>, Add<Height> with the body of Sub
add_wh_as_sub(c, other) == twod_scalar("sub", c, other)

add_wh(c, other) == twod_scalar("add", c, other)

sub_wh(c, other) == twod_scalar("sub", c, other)

add_assign_wh(c, other) == twod_scalar("add_assign", c, other)

sub_assign_wh(c, other) == twod_scalar("sub_assign", c, other)

\* impl_twod_add!(Size, Point): Add<Size> for Size and for Point
add_size(c, other) ==
    IF other.kind # "Size" \/ c.kind \notin {"Size", "Point"} THEN NoImpl
    ELSE IF c.kind = "Size"
    THEN Built({add(c.width, other.width), add(c.height, other.height)},
               Size(add(c.width, other.width), add(c.height, other.height)))
    ELSE Built({add(c.x, other.width), add(c.y, other.height)},
               Point(add(c.x, other.width), add(c.y, other.height)))

\* impl_twod_add!(Size, Point): Sub<Size> for Size and for Point
sub_size(c, other) ==
    IF other.kind # "Size" \/ c.kind \notin {"Size", "Point"} THEN NoImpl
    ELSE IF c.kind = "Size"
    THEN Built({sub(c.width, other.width), sub(c.height, other.height)},
               Size(sub(c.width, other.width), sub(c.height, other.height)))
    ELSE Built({sub(c.x, other.width), sub(c.y, other.height)},
               Point(sub(c.x, other.width), sub(c.y, other.height)))

\* impl_twod_add!(Size, Point): Sub<Point> for Point
sub_point(c, other) ==
    IF other.kind # "Point" \/ c.kind # "Point" THEN NoImpl
    ELSE Built({sub(c.x, other.x), sub(c.y, other.y)},
               Size(sub(c.x, other.x), sub(c.y, other.y)))

\* impl_twod_add!(Size, Point): AddAssign<Size>, SubAssign<Size> for Size, Point
assign_size(name, c, other) ==
    IF other.kind # "Size" THEN NoImpl
    ELSE IF c.kind = "Size"
    THEN Built({field_op(name, c.width, other.width), field_op(name, c.height, other.height)},
               Size(field_op(name, c.width, other.width), field_op(name, c.height, other.height)))
    ELSE Built({field_op(name, c.x, other.width), field_op(name, c.y, other.height)},
               Point(field_op(name, c.x, other.width), field_op(name, c.y, other.height)))

\* impl_twod!: Mul<V>, Div<V>, MulAssign<V>, DivAssign<V>, field by field
twod_scale(name, c, scale) ==
    LET f(q) == IF name = "mul" THEN scale_mul(q, scale)
                ELSE IF name = "div" THEN scale_div(q, scale)
                ELSE IF name = "mul_assign" THEN mul_assign(q, scale)
                ELSE div_assign(q, scale)
    IN  IF c.kind = "Size"
        THEN Built({f(c.width), f(c.height)}, Size(f(c.width), f(c.height)))
        ELSE Built({f(c.x), f(c.y)}, Point(f(c.x), f(c.y)))

\* PartialEq for Size, Point
twod_eq(a, b) ==
    IF a.kind # b.kind THEN NoImpl
    ELSE IF a.kind = "Size"
    THEN Built({partial_eq(a.width, b.width), partial_eq(a.height, b.height)},
               Bool(eq(a.width, b.width) /\ eq(a.height, b.height)))
    ELSE Built({partial_eq(a.x, b.x), partial_eq(a.y, b.y)},
               Bool(eq(a.x, b.x) /\ eq(a.y, b.y)))

\* a (+, -, *, /) b: the impl the operand types select
binary(name, a, b) ==
    IF a.kind \in Kinds
    THEN IF name = "add" THEN (IF b.kind \in Kinds THEN add(a, b) ELSE NoImpl)
         ELSE IF name = "sub" THEN (IF b.kind \in Kinds THEN sub(a, b) ELSE NoImpl)
         ELSE IF name = "mul" THEN scale_mul(a, b)
         ELSE scale_div(a, b)
    ELSE IF name = "add"
         THEN (IF b.kind \in Kinds THEN add_wh(a, b) ELSE add_size(a, b))
    ELSE IF name = "sub"
         THEN (IF b.kind \in Kinds THEN sub_wh(a, b)
               ELSE IF b.kind = "Size" THEN sub_size(a, b) ELSE sub_point(a, b))
    ELSE IF b.kind = "Num" THEN twod_scale(name, a, b) ELSE NoImpl

\* the receiver after a (+=, -=, *=, /=) b
assign(name, a, b) ==
    IF a.kind \in Kinds
    THEN IF name = "add_assign" THEN oned_add_assign(a, b)
         ELSE IF name = "sub_assign" THEN oned_sub_assign(a, b)
         ELSE IF name = "mul_assign" THEN mul_assign(a, b)
         ELSE div_assign(a, b)
    ELSE IF name = "add_assign"
         THEN (IF b.kind \in Kinds THEN add_assign_wh(a, b) ELSE assign_size(name, a, b))
    ELSE IF name = "sub_assign"
         THEN (IF b.kind \in Kinds THEN sub_assign_wh(a, b) ELSE assign_size(name, a, b))
    ELSE IF b.kind = "Num" THEN twod_scale(name, a, b) ELSE NoImpl

\* Rect::new
rect_new(origin, size) == Rect(origin, size)

\* from_points with the difference taken the other way round
from_points_reversed(origin, opposite) ==
    Built({sub_point(origin, opposite)}, Rect(origin, sub_point(origin, opposite)))

\* Rect::from_points
from_points(origin, opposite) ==
    Built({sub_point(opposite, origin)}, Rect(origin, sub_point(opposite, origin)))

\* Rect::corner
corner(r) == add_size(r.origin, r.size)

\* the input values of composite fields
SmallVals ==
    IF rep = "int" THEN (-MaxComp .. MaxComp) \cup {IntMax}
    ELSE {Lit(n) : n \in -MaxComp .. MaxComp} \cup {1}

Sizes(u) == {Size(new("Width", u, w), new("Height", u, h)) : w \in SmallVals, h \in SmallVals}

Points(u) == {Point(new("PosX", u, x), new("PosY", u, y)) : x \in SmallVals, y \in SmallVals}

Composites == Sizes("U1") \cup Points("U1")

\* the right operands tried on a composite
MixedOperands == {new(k, u, x) : k \in {"Width", "Height", "PosX"}, u \in Units, x \in Vals}

\* ------------------------------------------------------------ transform.rs
\* a transform value: its struct, its fields self.0 .. (p), UnitFrom and UnitTo
Transform(k, fields, u, w) == [kind |-> k, p |-> fields, from |-> u, to |-> w]

Rich == {"IdentityTransform", "Translation", "ScaleFactor", "AxisAlignedMatrixTransform"}

\* self.0[i] of a MatrixTransform
Coef(self, i) == self.p[i + 1]

\* the argument has the parameter's type
Typed(self, x, k) == x.kind = k /\ x.unit = self.from

\* Translation::transform_width that also shifts
translation_width_shifted(self, w) == add(w, self.p[1].width)

translation_width(self, w) == w

\* the body of one of the four primitives, for the axis x or y and the output kind k
Primitive(self, q, k, axis, positional) ==
    IF self.kind = "IdentityTransform" THEN new(k, self.to, NumInto(into_inner(q)))
    ELSE IF self.kind = "Translation"
    THEN IF positional
         THEN add(q, IF axis = "x" THEN self.p[1].width ELSE self.p[1].height)
         ELSE IF axis = "x" THEN translation_width(self, q) ELSE q
    ELSE IF self.kind = "ScaleFactor" THEN new(k, self.to, NumMul(into_inner(q), self.p[1]))
    ELSE IF self.kind = "AxisAlignedMatrixTransform"
    THEN LET scale == IF axis = "x" THEN self.p[1] ELSE self.p[2]
             translate == IF axis = "x" THEN self.p[3] ELSE self.p[4]
         IN  IF positional
             THEN new(k, self.to, NumAdd(NumMul(into_inner(q), scale), translate))
             ELSE new(k, self.to, NumInto(NumMul(into_inner(q), scale)))
    ELSE NoImpl

transform_position_x(self, x) ==
    IF Typed(self, x, "PosX") THEN Primitive(self, x, "PosX", "x", TRUE) ELSE NoImpl

transform_position_y(self, y) ==
    IF Typed(self, y, "PosY") THEN Primitive(self, y, "PosY", "y", TRUE) ELSE NoImpl

transform_width(self, w) ==
    IF Typed(self, w, "Width") THEN Primitive(self, w, "Width", "x", FALSE) ELSE NoImpl

\* transform_height that adds the factor instead of multiplying by it
transform_height_added(self, h) ==
    IF ~Typed(self, h, "Height") THEN NoImpl
    ELSE IF self.kind = "ScaleFactor" THEN new("Height", self.to, NumAdd(into_inner(h), self.p[1]))
    ELSE Primitive(self, h, "Height", "y", FALSE)

transform_height(self, h) ==
    IF Typed(self, h, "Height") THEN Primitive(self, h, "Height", "y", FALSE) ELSE NoImpl

\* MatrixTransform::transform_point with the coefficients read row-major
matrix_point_row_major(self, pt) ==
    Point(new("PosX", self.to,
              NumAdd(NumAdd(NumMul(get(pt.x), Coef(self, 0)), NumMul(get(pt.y), Coef(self, 1))),
                     Coef(self, 4))),
          new("PosY", self.to,
              NumAdd(NumAdd(NumMul(get(pt.x), Coef(self, 2)), NumMul(get(pt.y), Coef(self, 3))),
                     Coef(self, 5))))

\* Transform::transform_point for MatrixTransform
matrix_point(self, pt) ==
    Point(new("PosX", self.to,
              NumAdd(NumAdd(NumMul(get(pt.x), Coef(self, 0)), NumMul(get(pt.y), Coef(self, 2))),
                     Coef(self, 4))),
          new("PosY", self.to,
              NumAdd(NumAdd(NumMul(get(pt.x), Coef(self, 1)), NumMul(get(pt.y), Coef(self, 3))),
                     Coef(self, 5))))

\* AxisAlignedTransform::transform_point: the default, the override of
\* AxisAlignedMatrixTransform, and MatrixTransform's Transform::transform_point
transform_point(self, pt) ==
    IF pt.kind # "Point" \/ pt.x.unit # self.from THEN NoImpl
    ELSE IF self.kind = "MatrixTransform" THEN matrix_point(self, pt)
    ELSE IF self.kind = "AxisAlignedMatrixTransform"
    THEN Point(new("PosX", self.to, NumAdd(NumMul(into_inner(pt.x), self.p[1]), self.p[3])),
               new("PosY", self.to, NumAdd(NumMul(into_inner(pt.y), self.p[2]), self.p[4])))
    ELSE Point(transform_position_x(self, pt.x), transform_position_y(self, pt.y))

\* transform_size whose override also translates, as transform_point does
transform_size_translated(self, sz) ==
    IF sz.kind # "Size" \/ sz.width.unit # self.from \/ self.kind \notin Rich THEN NoImpl
    ELSE IF self.kind = "AxisAlignedMatrixTransform"
    THEN Size(new("Width", self.to, NumAdd(NumMul(into_inner(sz.width), self.p[1]), self.p[3])),
              new("Height", self.to, NumAdd(NumMul(into_inner(sz.height), self.p[2]), self.p[4])))
    ELSE Size(transform_width(self, sz.width), transform_height(self, sz.height))

\* AxisAlignedTransform::transform_size: the default and the override
transform_size(self, sz) ==
    IF sz.kind # "Size" \/ sz.width.unit # self.from \/ self.kind \notin Rich THEN NoImpl
    ELSE IF self.kind = "AxisAlignedMatrixTransform"
    THEN Size(new("Width", self.to, NumInto(NumMul(into_inner(sz.width), self.p[1]))),
              new("Height", self.to, NumInto(NumMul(into_inner(sz.height), self.p[2]))))
    ELSE Size(transform_width(self, sz.width), transform_height(self, sz.height))

\* transform_rect that maps the origin and keeps the size of the source
transform_rect_origin_only(self, r) ==
    IF r.kind # "Rect" \/ r.origin.x.unit # self.from \/ self.kind \notin Rich THEN NoImpl
    ELSE Rect(transform_point(self, r.origin),
              Size(new("Width", self.to, NumInto(into_inner(r.size.width))),
                   new("Height", self.to, NumInto(into_inner(r.size.height)))))

\* AxisAlignedTransform::transform_rect (default only)
transform_rect(self, r) ==
    IF r.kind # "Rect" \/ r.origin.x.unit # self.from \/ self.kind \notin Rich THEN NoImpl
    ELSE Rect(transform_point(self, r.origin), transform_size(self, r.size))

MethodNames ==
    {"transform_position_x", "transform_position_y", "transform_width", "transform_height",
     "transform_point", "transform_size", "transform_rect"}

\* the call self.name(v)
Method(self, name, v) ==
    IF name = "transform_position_x" THEN transform_position_x(self, v)
    ELSE IF name = "transform_position_y" THEN transform_position_y(self, v)
    ELSE IF name = "transform_width" THEN transform_width(self, v)
    ELSE IF name = "transform_height" THEN transform_height(self, v)
    ELSE IF name = "transform_point" THEN transform_point(self, v)
    ELSE IF name = "transform_size" THEN transform_size(self, v)
    ELSE transform_rect(self, v)

\* a macro table with Width and Height dispatched to the position methods
impl_mul_positions ==
    {<<"PosX", "transform_position_x">>, <<"PosY", "transform_position_y">>,
     <<"Width", "transform_position_x">>, <<"Height", "transform_position_y">>,
     <<"Point", "transform_point">>, <<"Size", "transform_size">>,
     <<"Rect", "transform_rect">>}

\* impl_mul_for_transform!: <<operand struct, method>>
impl_mul_for_transform ==
    {<<"PosX", "transform_position_x">>, <<"PosY", "transform_position_y">>,
     <<"Width", "transform_width">>, <<"Height", "transform_height">>,
     <<"Point", "transform_point">>, <<"Size", "transform_size">>,
     <<"Rect", "transform_rect">>}

\* the Mul impls of a transform struct
MulImpls(k) ==
    IF k = "MatrixTransform" THEN {<<"Point", "transform_point">>}
    ELSE impl_mul_for_transform

\* self * v
mul(self, v) ==
    LET s == {i \in MulImpls(self.kind) : i[1] = v.kind}
    IN  IF s = {} THEN NoImpl ELSE Method(self, (CHOOSE i \in s : TRUE)[2], v)

\* the structs whose Mul impls are for a reference (&'a ScaleFactor);
\* the others take self by value and are neither Copy nor Clone
MulByRef == {"ScaleFactor"}

\* AxisAlignedMatrixTransform::new
aamt_new(scale_x, scale_y, translate_x, translate_y, u, w) ==
    Transform("AxisAlignedMatrixTransform", <<scale_x, scale_y, translate_x, translate_y>>, u, w)

\* from_rects with the translation taken from the source origin unscaled
from_rects_unscaled(from, to) ==
    LET scale_x == NumDiv(into_inner(to.size.width), into_inner(from.size.width))
        scale_y == NumDiv(into_inner(to.size.height), into_inner(from.size.height))
        translate_x == NumSub(into_inner(to.origin.x), into_inner(from.origin.x))
        translate_y == NumSub(into_inner(to.origin.y), into_inner(from.origin.y))
    IN  aamt_new(scale_x, scale_y, translate_x, translate_y, from.origin.x.unit, to.origin.x.unit)

\* AxisAlignedMatrixTransform::from_rects
from_rects(from, to) ==
    LET scale_x == NumDiv(into_inner(to.size.width), into_inner(from.size.width))
        scale_y == NumDiv(into_inner(to.size.height), into_inner(from.size.height))
        translate_x == NumSub(into_inner(to.origin.x), NumMul(into_inner(from.origin.x), scale_x))
        translate_y == NumSub(into_inner(to.origin.y), NumMul(into_inner(from.origin.y), scale_y))
    IN  aamt_new(scale_x, scale_y, translate_x, translate_y, from.origin.x.unit, to.origin.x.unit)

\* from_rects returns: neither division fails
FromRectsReturns(from, to) ==
    /\ DivReturns(into_inner(to.size.width), into_inner(from.size.width))
    /\ DivReturns(into_inner(to.size.height), into_inner(from.size.height))

\* the transforms constructed
CoefVals == {Lit(n) : n \in 0 .. MaxCoef}

OffsetVals == {Lit(0), Lit(5)}

Transforms ==
    {Transform("IdentityTransform", <<>>, "U1", "U2")}
    \cup {Transform("Translation", <<o>>, "U1", "U1") : o \in Sizes("U1")}
    \cup {Transform("ScaleFactor", <<f>>, "U1", "U2") : f \in Vals}
    \cup {Transform("MatrixTransform", <<a, b, c, d, e, f>>, "U1", "U2") :
            a \in CoefVals, b \in CoefVals, c \in CoefVals, d \in CoefVals,
            e \in OffsetVals, f \in OffsetVals}
    \cup {aamt_new(sx, sy, tx, ty, "U1", "U2") :
            sx \in SmallVals, sy \in SmallVals, tx \in CoefVals, ty \in CoefVals}

\* the values transformed
ArgVals == {Lit(n) : n \in 0 .. MaxArg} \cup {Lit(-1), 1}

PointArgs == {Point(new("PosX", "U1", x), new("PosY", "U1", y)) : x \in ArgVals, y \in ArgVals}

SizeArgs == {Size(new("Width", "U1", x), new("Height", "U1", y)) : x \in CoefVals, y \in CoefVals}

Args ==
    {new(k, "U1", x) : k \in {"PosX", "PosY", "Width", "Height"}, x \in ArgVals}
    \cup PointArgs \cup SizeArgs
    \cup {Rect(o, z) : o \in {q \in PointArgs : q.x.v = q.y.v /\ q.x.v \in {Lit(-1), Lit(2)}},
                        z \in {q \in SizeArgs : q.height.v = Lit(1)}}

\* the rectangles given to from_rects
RectPos == {Lit(0), Lit(1)}

FromRectsIn ==
    {Rect(Point(new("PosX", "U1", x), new("PosY", "U1", y)),
          Size(new("Width", "U1", w), new("Height", "U1", h))) :
        x \in RectPos, y \in RectPos,
        w \in {Lit(n) : n \in 0 .. MaxRect}, h \in {Lit(n) : n \in 0 .. MaxRect}}

ToRectsIn ==
    {Rect(Point(new("PosX", "U2", x), new("PosY", "U2", y)),
          Size(new("Width", "U2", w), new("Height", "U2", h))) :
        x \in RectPos, y \in RectPos,
        w \in {Lit(n) : n \in 1 .. MaxTo}, h \in {Lit(n) : n \in 1 .. MaxTo}}

\* ------------------------------------------------------------ actions
\* the program binds lhs once (let a = ...) and applies one operation to it
Init ==
    /\ rep \in Reps
    /\ op = "init"
    /\ lhs \in Scalars \cup Composites
    /\ rhs = NoValue
    /\ res = NoValue
    /\ recv = NoValue
    /\ tf = NoValue
    /\ live = FALSE

\* res is the value returned, recv the receiver afterwards
Apply(name, b, result, receiver) ==
    /\ op = "init"
    /\ op' = name
    /\ rhs' = b
    /\ res' = result
    /\ recv' = receiver
    /\ UNCHANGED <<rep, lhs, tf, live>>

\* lhs + b on two scalar quantities
OnedAdd == \E b \in Scalars : lhs.kind \in Kinds /\ Apply("add", b, add(lhs, b), lhs)

\* lhs - b on two scalar quantities
OnedSub == \E b \in Scalars : lhs.kind \in Kinds /\ Apply("sub", b, sub(lhs, b), lhs)

\* lhs + b, a Point or Size and a single-axis scalar
TwodAdd ==
    \E b \in MixedOperands :
        lhs.kind \in {"Size", "Point"} /\ Apply("add", b, add_wh(lhs, b), lhs)

\* lhs - b, a Point or Size and a single-axis scalar
TwodSub ==
    \E b \in MixedOperands :
        lhs.kind \in {"Size", "Point"} /\ Apply("sub", b, sub_wh(lhs, b), lhs)

\* lhs += b: returns (), mutates the receiver
TwodAddAssign ==
    \E b \in MixedOperands :
        lhs.kind \in {"Size", "Point"} /\ Apply("add_assign", b, NoValue, add_assign_wh(lhs, b))

\* lhs -= b
TwodSubAssign ==
    \E b \in MixedOperands :
        lhs.kind \in {"Size", "Point"} /\ Apply("sub_assign", b, NoValue, sub_assign_wh(lhs, b))

Next == OnedAdd \/ OnedSub \/ TwodAdd \/ TwodSub \/ TwodAddAssign \/ TwodSubAssign

Spec == Init /\ [][Next]_vars

\* -------------------------- compound assignment, comparison, accessors
Nums == {Num(x) : x \in Vals}

\* the right operands tried on lhs
RightOperands ==
    IF lhs.kind \in Kinds THEN Scalars \cup Nums
    ELSE MixedOperands \cup Composites \cup Sizes("U2") \cup Nums

\* no division of lhs by b fails
Divides(b) ==
    b.kind = "Num" =>
        IF lhs.kind \in Kinds THEN DivReturns(lhs.v, b.v)
        ELSE IF lhs.kind = "Size"
        THEN DivReturns(lhs.width.v, b.v) /\ DivReturns(lhs.height.v, b.v)
        ELSE DivReturns(lhs.x.v, b.v) /\ DivReturns(lhs.y.v, b.v)

\* lhs += b
AddAssign ==
    op = "init" /\ \E b \in RightOperands : Apply("add_assign", b, NoValue, assign("add_assign", lhs, b))

\* lhs -= b
SubAssign ==
    op = "init" /\ \E b \in RightOperands : Apply("sub_assign", b, NoValue, assign("sub_assign", lhs, b))

\* lhs *= b
MulAssign ==
    op = "init" /\ \E b \in RightOperands : Apply("mul_assign", b, NoValue, assign("mul_assign", lhs, b))

\* lhs /= b
DivAssign ==
    op = "init" /\ \E b \in RightOperands :
        Divides(b) /\ Apply("div_assign", b, NoValue, assign("div_assign", lhs, b))

\* lhs == b
PartialEq ==
    op = "init" /\ \E b \in Scalars \cup Composites \cup Sizes("U2") :
        /\ (lhs.kind \in Kinds) = (b.kind \in Kinds)
        /\ Apply("eq", b, IF lhs.kind \in Kinds THEN partial_eq(lhs, b) ELSE twod_eq(lhs, b), lhs)

\* lhs < b
PartialOrd ==
    op = "init" /\ \E b \in Scalars : lhs.kind \in Kinds /\ Apply("lt", b, lt(lhs, b), lhs)

\* lhs.get(), &self
Get == lhs.kind \in Kinds /\ Apply("get", NoValue, Num(get(lhs)), lhs)

\* lhs.into_inner(): consumes self
IntoInner == lhs.kind \in Kinds /\ Apply("into_inner", NoValue, Num(into_inner(lhs)), NoValue)

NextOps ==
    \/ AddAssign \/ SubAssign \/ MulAssign \/ DivAssign
    \/ PartialEq \/ PartialOrd \/ Get \/ IntoInner

SpecOps == Init /\ [][NextOps]_vars

\* ---------------------------------------------- actions on a transform
\* the program binds a transform and a value, then applies the one to the other
InitTransform ==
    /\ rep \in Reps
    /\ op = "init"
    /\ tf \in Transforms
    /\ live = TRUE
    /\ lhs \in Args
    /\ rhs = NoValue
    /\ res = NoValue
    /\ recv = NoValue

\* tf.name(lhs): the methods take &self
CallMethod ==
    \E name \in MethodNames :
        /\ live
        /\ op' = name
        /\ res' = Method(tf, name, lhs)
        /\ UNCHANGED <<rep, lhs, rhs, recv, tf, live>>

\* tf * lhs (&tf * lhs for ScaleFactor): a by-value receiver is moved
MulOp ==
    /\ live
    /\ op' = "mul"
    /\ res' = mul(tf, lhs)
    /\ live' = (tf.kind \in MulByRef \/ mul(tf, lhs) = NoImpl)
    /\ UNCHANGED <<rep, lhs, rhs, recv, tf>>

NextTransform == CallMethod \/ MulOp

SpecTransform == InitTransform /\ [][NextTransform]_vars

\* ------------------------------------------------ actions on from_rects
\* the program binds two rectangles, derives the transform and applies it
InitFromRects ==
    /\ rep \in Reps
    /\ op = "init"
    /\ lhs \in FromRectsIn
    /\ rhs \in ToRectsIn
    /\ tf = NoValue
    /\ live = FALSE
    /\ res = NoValue
    /\ recv = NoValue

\* tf = AxisAlignedMatrixTransform::from_rects(lhs, rhs)
FromRects ==
    /\ op = "init"
    /\ FromRectsReturns(lhs, rhs)
    /\ op' = "from_rects"
    /\ tf' = from_rects(lhs, rhs)
    /\ live' = TRUE
    /\ UNCHANGED <<rep, lhs, rhs, res, recv>>

\* tf.transform_rect(lhs)
TransformFrom ==
    /\ op = "from_rects"
    /\ op' = "transform_rect"
    /\ res' = transform_rect(tf, lhs)
    /\ UNCHANGED <<rep, lhs, rhs, recv, tf, live>>

NextFromRects == FromRects \/ TransformFrom

SpecFromRects == InitFromRects /\ [][NextFromRects]_vars

\* ---------------------------------------------------- actions on a Rect
\* the corners and sizes a Rect is built from
CornerPoints == {Point(new("PosX", "U1", x), new("PosY", "U1", y)) : x \in Vals, y \in Vals}

CornerSizes == {Size(new("Width", "U1", w), new("Height", "U1", h)) : w \in Vals, h \in Vals}

\* the program binds an origin and a size or a far point
InitRect ==
    /\ rep \in Reps
    /\ op = "init"
    /\ lhs \in CornerPoints
    /\ rhs \in CornerPoints \cup CornerSizes
    /\ res = NoValue
    /\ recv = NoValue
    /\ tf = NoValue
    /\ live = FALSE

\* recv = Rect::new(lhs, rhs)
RectNew ==
    /\ op = "init"
    /\ rhs.kind = "Size"
    /\ op' = "new"
    /\ recv' = rect_new(lhs, rhs)
    /\ UNCHANGED <<rep, lhs, rhs, res, tf, live>>

\* recv = Rect::from_points(lhs, rhs)
FromPoints ==
    /\ op = "init"
    /\ rhs.kind = "Point"
    /\ op' = "from_points"
    /\ recv' = from_points(lhs, rhs)
    /\ UNCHANGED <<rep, lhs, rhs, res, tf, live>>

\* res = recv.corner(), &self
Corner ==
    /\ op \in {"new", "from_points"}
    /\ op' = "corner"
    /\ res' = corner(recv)
    /\ UNCHANGED <<rep, lhs, rhs, recv, tf, live>>

NextRect == RectNew \/ FromPoints \/ Corner

SpecRect == InitRect /\ [][NextRect]_vars

\* ------------------------------------------------------------ claims
Category(k) == IF k \in {"Length", "Width", "Height"} THEN "length" ELSE "position"

Axis(k) ==
    IF k \in {"Length", "Position"} THEN "none"
    ELSE IF k \in {"Width", "PosX"} THEN "x" ELSE "y"

LengthOn(axis) == IF axis = "none" THEN "Length" ELSE IF axis = "x" THEN "Width" ELSE "Height"

\* the operator table of the semantic algebra
Allowed(o, a, b) ==
    /\ Axis(a.kind) = Axis(b.kind)
    /\ a.unit = b.unit
    /\ \/ Category(b.kind) = "length"
       \/ o = "sub" /\ Category(a.kind) = "position" /\ Category(b.kind) = "position"

OutKind(a, b) ==
    IF Category(a.kind) = "position" /\ Category(b.kind) = "position"
    THEN LengthOn(Axis(a.kind)) ELSE a.kind

OnedOp == op \in {"add", "sub"} /\ lhs.kind \in Kinds

\* C1: + and - on the six scalar kinds are defined exactly for length (+-) length,
\* position (+-) length and position - position of one axis and unit; the result
\* has the kind the algebra gives and the sum or difference of the two values.
C1_SemanticAlgebra ==
    OnedOp =>
        IF Allowed(op, lhs, rhs)
        THEN /\ res.kind = OutKind(lhs, rhs)
             /\ res.unit = lhs.unit
             /\ res.v = IF op = "add" THEN NumAdd(lhs.v, rhs.v) ELSE NumSub(lhs.v, rhs.v)
        ELSE res = NoImpl

C1_Witness ==
    /\ op = "sub" /\ lhs.kind = "PosY" /\ rhs.kind = "PosY"
    /\ res.kind = "Height" /\ res.v = Lit(2)

\* the sum a + b is the exact sum (no rounding in a float; any wrapping integer)
ExactAdd(a, b) == rep = "int" \/ NumAdd(a, b) = a + b

ExactSub(a, b) == rep = "int" \/ NumSub(a, b) = a - b

PosPlusLen == op = "add" /\ lhs.kind \in Positions /\ res # NoImpl

\* C2 as stated: for every position p and matching length d, (p + d) - d == p.
C2_Original == PosPlusLen => eq(sub(res, rhs), lhs)

\* C2 amended: (p + d) - d == p whenever p + d is computed without rounding.
C2_AddThenSub == (PosPlusLen /\ ExactAdd(lhs.v, rhs.v)) => eq(sub(res, rhs), lhs)

C2_Witness ==
    /\ PosPlusLen /\ rhs.v # 0 /\ ExactAdd(lhs.v, rhs.v)
    /\ rep = "float" /\ eq(sub(res, rhs), lhs)

PosMinusPos == op = "sub" /\ lhs.kind \in Positions /\ rhs.kind \in Positions /\ res # NoImpl

\* C3 as stated: p - q has the matching length kind and q + (p - q) == p.
C3_Original ==
    PosMinusPos => res.kind = LengthOn(Axis(lhs.kind)) /\ eq(add(rhs, res), lhs)

\* C3 amended: p - q has the matching length kind, and q + (p - q) == p
\* whenever p - q is computed without rounding.
C3_SubThenAdd ==
    PosMinusPos =>
        /\ res.kind = LengthOn(Axis(lhs.kind))
        /\ ExactSub(lhs.v, rhs.v) => eq(add(rhs, res), lhs)

C3_Witness ==
    /\ PosMinusPos /\ lhs.kind = "PosX" /\ res.kind = "Width" /\ res.v # 0
    /\ rep = "float" /\ ExactSub(lhs.v, rhs.v) /\ eq(add(rhs, res), lhs)

XOf(c) == IF c.kind = "Size" THEN c.width ELSE c.x

YOf(c) == IF c.kind = "Size" THEN c.height ELSE c.y

\* the composite the operation leaves: the value returned, or the receiver
Outcome == IF op \in {"add", "sub"} THEN res ELSE recv

Moved(a, b) ==
    IF op \in {"add", "add_assign"} THEN NumAdd(a, b) ELSE NumSub(a, b)

MixedOp ==
    /\ op \in {"add", "sub", "add_assign", "sub_assign"}
    /\ lhs.kind \in {"Size", "Point"}
    /\ rhs.kind \in {"Width", "Height"}
    /\ rhs.unit = XOf(lhs).unit

\* C7: Point/Size (+, -, +=, -=) Width changes the x/width component by w and
\* leaves y/height; with a Height only the y/height component changes.
C7_MixedAxis ==
    MixedOp =>
        /\ Outcome.kind = lhs.kind
        /\ IF rhs.kind = "Width"
           THEN /\ XOf(Outcome) = [XOf(lhs) EXCEPT !.v = Moved(XOf(lhs).v, rhs.v)]
                /\ YOf(Outcome) = YOf(lhs)
           ELSE /\ YOf(Outcome) = [YOf(lhs) EXCEPT !.v = Moved(YOf(lhs).v, rhs.v)]
                /\ XOf(Outcome) = XOf(lhs)

C7_Witness ==
    /\ MixedOp /\ op = "add" /\ lhs.kind = "Point" /\ rhs.kind = "Width"
    /\ lhs.x.v = Lit(1) /\ lhs.y.v = Lit(-1) /\ rhs.v = Lit(2)
    /\ res = Point(new("PosX", "U1", Lit(3)), new("PosY", "U1", Lit(-1)))

Called(k, name, argKind) == tf.kind = k /\ op = name /\ lhs.kind = argKind

Offset == tf.p[1]

\* C4: a Translation by (dx, dy) leaves widths and heights unchanged and maps
\* a position x to x + dx, a position y to y + dy.
C4_Translation ==
    /\ Called("Translation", "transform_width", "Width") => res = lhs
    /\ Called("Translation", "transform_height", "Height") => res = lhs
    /\ Called("Translation", "transform_position_x", "PosX") =>
           res = new("PosX", lhs.unit, NumAdd(lhs.v, Offset.width.v))
    /\ Called("Translation", "transform_position_y", "PosY") =>
           res = new("PosY", lhs.unit, NumAdd(lhs.v, Offset.height.v))

C4_Witness ==
    /\ Called("Translation", "transform_width", "Width")
    /\ Offset.width.v = Lit(1) /\ lhs.v = Lit(2) /\ res = lhs

\* a product, a quotient computed without rounding or truncation
ExactMul(a, b) == rep = "int" \/ NumMul(a, b) * Pow2(FracBits) = a * b

ExactDiv(a, b) == NumDiv(a, b) * b = a * One

\* every operation of from_rects and of the mapping of the source rectangle
\* and its corner is exact on one axis
ExactAxis(fx, fw, tx, tw) ==
    LET scale == NumDiv(tw, fw)
    IN  /\ ExactDiv(tw, fw)
        /\ ExactMul(fx, scale)
        /\ ExactSub(tx, NumMul(fx, scale))
        /\ ExactAdd(fx, fw)
        /\ ExactMul(NumAdd(fx, fw), scale)

FromRectsExact ==
    /\ ExactAxis(lhs.origin.x.v, lhs.size.width.v, rhs.origin.x.v, rhs.size.width.v)
    /\ ExactAxis(lhs.origin.y.v, lhs.size.height.v, rhs.origin.y.v, rhs.size.height.v)

MapsOnto ==
    /\ res = rhs
    /\ transform_point(tf, lhs.origin) = rhs.origin
    /\ transform_point(tf, corner(lhs)) = corner(rhs)

\* C5 as stated: from_rects(from, to) sends every from with non-zero width and
\* height onto to: origin to origin, corner to corner, transform_rect(from) == to.
C5_Original == op = "transform_rect" => MapsOnto

\* C5 amended: from_rects(from, to) sends from onto to whenever the two scale
\* quotients are exact and no intermediate operation rounds.
C5_FromRects == (op = "transform_rect" /\ FromRectsExact) => MapsOnto

C5_Witness ==
    /\ op = "transform_rect" /\ FromRectsExact /\ MapsOnto
    /\ tf.p[1] = Lit(2) /\ tf.p[3] = Lit(-1) /\ lhs.origin.x.v = Lit(1)

\* C6: MatrixTransform [a,b,c,d,e,f] maps (x, y) to (a*x + c*y + e, b*x + d*y + f);
\* [1,0,0,1,5,5] maps Point(2,3) to Point(7,8).
C6_MatrixPoint ==
    Called("MatrixTransform", "transform_point", "Point") =>
        LET a == tf.p[1]
            b == tf.p[2]
            c == tf.p[3]
            d == tf.p[4]
            e == tf.p[5]
            f == tf.p[6]
            x == lhs.x.v
            y == lhs.y.v
        IN  /\ res = Point(new("PosX", tf.to, NumAdd(NumAdd(NumMul(a, x), NumMul(c, y)), e)),
                           new("PosY", tf.to, NumAdd(NumAdd(NumMul(b, x), NumMul(d, y)), f)))
            /\ (tf.p = <<Lit(1), Lit(0), Lit(0), Lit(1), Lit(5), Lit(5)>>
                    /\ x = Lit(2) /\ y = Lit(3))
               => (res.x.v = Lit(7) /\ res.y.v = Lit(8))

C6_Witness ==
    /\ Called("MatrixTransform", "transform_point", "Point")
    /\ tf.p = <<Lit(1), Lit(0), Lit(0), Lit(1), Lit(5), Lit(5)>>
    /\ lhs.x.v = Lit(2) /\ lhs.y.v = Lit(3)
    /\ res.x.v = Lit(7) /\ res.y.v = Lit(8)

ScalarMethods ==
    {"transform_position_x", "transform_position_y", "transform_width", "transform_height"}

\* a scalar was scaled by a non-zero factor
Scaled == tf.kind = "ScaleFactor" /\ tf.p[1] # 0 /\ op \in ScalarMethods /\ res # NoImpl

\* ScaleFactor(1/s), from the target unit back to the source unit
Inverse == Transform("ScaleFactor", <<NumDiv(One, tf.p[1])>>, tf.to, tf.from)

\* C8 as stated: scaling v by s != 0 and then by 1/s returns v.
C8_Original == Scaled => Method(Inverse, op, res) = lhs

\* C8 amended: scaling v by s != 0 and then by 1/s returns v whenever 1/s and
\* v * s are computed exactly.
C8_ScaleRoundTrip ==
    (Scaled /\ ExactDiv(One, tf.p[1]) /\ ExactMul(lhs.v, tf.p[1]))
        => Method(Inverse, op, res) = lhs

C8_Witness ==
    /\ Scaled /\ ExactDiv(One, tf.p[1]) /\ ExactMul(lhs.v, tf.p[1])
    /\ rep = "float" /\ tf.p[1] = Lit(2) /\ lhs.v = Lit(3) /\ op = "transform_height"
    /\ Method(Inverse, op, res) = lhs

\* C9 as stated: no application, by method or by *, consumes or changes the
\* transform: it can be applied again afterwards.
C9_Original == [][live => (live' /\ tf' = tf)]_vars

\* the transform_* method matching an operand kind
Matching(k) ==
    IF k = "PosX" THEN "transform_position_x"
    ELSE IF k = "PosY" THEN "transform_position_y"
    ELSE IF k = "Width" THEN "transform_width"
    ELSE IF k = "Height" THEN "transform_height"
    ELSE IF k = "Point" THEN "transform_point"
    ELSE IF k = "Size" THEN "transform_size"
    ELSE "transform_rect"

MulDefined ==
    IF tf.kind = "MatrixTransform" THEN lhs.kind = "Point"
    ELSE lhs.kind \in {"PosX", "PosY", "Width", "Height", "Point", "Size", "Rect"}

\* C10: transform * value is defined for PosX, PosY, Width, Height, Point, Size
\* and Rect (Point only for MatrixTransform) and returns what the matching
\* transform_* method returns on the same value.
C10_MulIsMethod ==
    op = "mul" =>
        IF MulDefined
        THEN res # NoImpl /\ res = Method(tf, Matching(lhs.kind), lhs)
        ELSE res = NoImpl

C10_Witness ==
    /\ op = "mul" /\ tf.kind = "AxisAlignedMatrixTransform" /\ lhs.kind = "Width"
    /\ tf.p[1] = Lit(-1) /\ tf.p[3] = Lit(1) /\ lhs.v = Lit(2)
    /\ res = new("Width", "U2", Lit(-2))

\* the size from_points derives: far_point - origin, component by component
Span == Size(new("Width", lhs.x.unit, NumSub(rhs.x.v, lhs.x.v)),
             new("Height", lhs.y.unit, NumSub(rhs.y.v, lhs.y.v)))

\* the rectangle the program built, as its constructor's arguments give it
AsBuilt == IF rhs.kind = "Size" THEN Rect(lhs, rhs) ELSE Rect(lhs, Span)

\* corner() returned origin + size and left the rectangle as built
CornerIsSum ==
    /\ recv = AsBuilt
    /\ res = Point(new("PosX", recv.origin.x.unit,
                       NumAdd(recv.origin.x.v, recv.size.width.v)),
                   new("PosY", recv.origin.y.unit,
                       NumAdd(recv.origin.y.v, recv.size.height.v)))

\* C11 as stated: corner() == origin + size and leaves r unchanged; from_points
\* keeps the origin, takes size far_point - origin, and its corner() == far_point.
C11_Original ==
    op = "corner" => (CornerIsSum /\ (rhs.kind = "Point" => res = rhs))

\* C11 amended: as stated, with corner() == far_point whenever far_point - origin
\* is computed without rounding.
C11_RectCorner ==
    op = "corner" =>
        /\ CornerIsSum
        /\ (rhs.kind = "Point" /\ ExactSub(rhs.x.v, lhs.x.v) /\ ExactSub(rhs.y.v, lhs.y.v))
               => res = rhs

C11_Witness ==
    /\ op = "corner" /\ rhs.kind = "Point" /\ rep = "float"
    /\ lhs.x.v = Lit(-1) /\ lhs.y.v = Lit(2) /\ rhs.x.v = Lit(1) /\ rhs.y.v = 1
    /\ ExactSub(rhs.x.v, lhs.x.v) /\ ExactSub(rhs.y.v, lhs.y.v)
    /\ recv.size.width.v = Lit(2) /\ res = rhs

AssignOps == {"add_assign", "sub_assign", "mul_assign", "div_assign"}

\* what the binary operator matching the compound assignment returns for lhs, rhs
Bin ==
    binary(IF op = "add_assign" THEN "add" ELSE IF op = "sub_assign" THEN "sub"
           ELSE IF op = "mul_assign" THEN "mul" ELSE "div", lhs, rhs)

\* C12 as stated: a compound assignment is defined for exactly the right
\* operands of its binary operator, and leaves the receiver equal to the
\* binary operator's result.
C12_Original ==
    op \in AssignOps =>
        /\ (recv # NoImpl) <=> (Bin # NoImpl)
        /\ recv # NoImpl => recv = Bin

\* C12: after a += b, a -= b, a *= b, a /= b the receiver equals the result of
\* the binary operator on the old receiver and b, and the assignment is
\* defined for exactly the right operands for which the binary operator is
\* defined and returns the receiver's own type; position - position
\* (Point - Point), which returns a length (Size), has no in-place form.
C12_AssignMirrors ==
    op \in AssignOps =>
        /\ (recv # NoImpl) <=> (Bin # NoImpl /\ Bin.kind = lhs.kind)
        /\ recv # NoImpl => recv = Bin

C12_Witness ==
    /\ op = "sub_assign" /\ lhs.kind = "Point" /\ rhs.kind = "Size"
    /\ rhs.width.v = One /\ rhs.height.v = -One
    /\ recv = Point(new("PosX", lhs.x.unit, NumSub(lhs.x.v, rhs.width.v)),
                    new("PosY", lhs.y.unit, NumSub(lhs.y.v, rhs.height.v)))
    /\ recv = Bin /\ recv.x.v # lhs.x.v

\* lhs and rhs have the same type: kind and unit
SameType ==
    /\ rhs.kind = lhs.kind
    /\ IF lhs.kind \in Kinds THEN rhs.unit = lhs.unit
       ELSE XOf(rhs).unit = XOf(lhs).unit /\ YOf(rhs).unit = YOf(lhs).unit

\* C13: two scalars of one kind and unit are equal iff their numbers are, and
\* ordered as their numbers are; two Sizes or Points are equal iff both
\* components are; new(v).get() and new(v).into_inner() return v, and get()
\* leaves the quantity as it was.
C13_ValueOnly ==
    /\ (op = "eq" /\ lhs.kind \in Kinds /\ SameType) => res = Bool(lhs.v = rhs.v)
    /\ (op = "lt" /\ SameType) => res = Bool(lhs.v < rhs.v)
    /\ (op = "eq" /\ lhs.kind \notin Kinds /\ SameType) =>
           res = Bool(XOf(lhs).v = XOf(rhs).v /\ YOf(lhs).v = YOf(rhs).v)
    /\ op = "get" =>
           \E x \in Vals : lhs = new(lhs.kind, lhs.unit, x) /\ res = Num(x) /\ recv = lhs
    /\ op = "into_inner" =>
           \E x \in Vals : lhs = new(lhs.kind, lhs.unit, x) /\ res = Num(x)

C13_Witness ==
    /\ op = "lt" /\ SameType /\ lhs.kind = "Length"
    /\ lhs.v = -One /\ rhs.v = Lit(2) /\ res = Bool(TRUE)

\* a point mapped by the two position primitives of tf
PointByPrimitives(pt) == Point(transform_position_x(tf, pt.x), transform_position_y(tf, pt.y))

\* a size mapped by the width and height primitives of tf
SizeByPrimitives(sz) == Size(transform_width(tf, sz.width), transform_height(tf, sz.height))

\* C14: for Identity, Translation, ScaleFactor and AxisAlignedMatrixTransform
\* (its overrides included) transform_point is the point of the two position
\* primitives, transform_size the size of the width and height primitives, and
\* transform_rect the rectangle of the transformed origin and transformed size.
C14_CompositeFromPrimitives ==
    tf.kind \in Rich =>
        /\ (op = "transform_point" /\ lhs.kind = "Point") => res = PointByPrimitives(lhs)
        /\ (op = "transform_size" /\ lhs.kind = "Size") => res = SizeByPrimitives(lhs)
        /\ (op = "transform_rect" /\ lhs.kind = "Rect") =>
               /\ res = Rect(PointByPrimitives(lhs.origin), SizeByPrimitives(lhs.size))
               /\ res = Rect(transform_point(tf, lhs.origin), transform_size(tf, lhs.size))

C14_Witness ==
    /\ Called("AxisAlignedMatrixTransform", "transform_size", "Size")
    /\ tf.p = <<-One, One, Lit(1), Lit(1)>>
    /\ lhs.width.v = Lit(1) /\ lhs.height.v = Lit(1)
    /\ res = SizeByPrimitives(lhs) /\ res.width.v = Lit(-1) /\ res.height.v = Lit(1)

\* C15: over integers, for a rich transform F and a Rect r, the corner of
\* F.transform_rect(r) is F.transform_point of the corner of r.
C15_RectCornerCommutes ==
    (rep = "int" /\ tf.kind \in Rich /\ op = "transform_rect" /\ lhs.kind = "Rect") =>
        /\ res.kind = "Rect"
        /\ corner(res) = transform_point(tf, corner(lhs))

C15_Witness ==
    /\ rep = "int" /\ Called("AxisAlignedMatrixTransform", "transform_rect", "Rect")
    /\ tf.p = <<-1, 1, 1, 1>>
    /\ lhs.origin.x.v = 2 /\ lhs.size.width.v = 1
    /\ res.origin.x.v = -1 /\ res.size.width.v = -1
    /\ corner(res).x.v = -2 /\ corner(res) = transform_point(tf, corner(lhs))

====
